---------------------------- MODULE Spec2Model ----------------------------
(***************************************************************************)
(* Daily Brief Agent: the /chat handler of app/main.py (response           *)
(* classification, tool-call normalisation, tool execution, result         *)
(* formatting, rolling history) and the search tool of app/agent_tools.py. *)
(*                                                                         *)
(* Python text is modelled by TLA+ strings, handled character by character *)
(* (SubSeq, Len, \o).  Python values whose type the code inspects at run   *)
(* time (JSON coming from the model backend) are tagged records            *)
(* [t |-> <type>, v |-> <value>]; a dict is the sequence of its            *)
(* <<key, value>> pairs in insertion order.                                *)
(***************************************************************************)
EXTENDS Integers, Sequences, FiniteSets, TLC

(***************************************************************************)
(* Python values                                                           *)
(***************************************************************************)
PyNone == [t |-> "none"]
PyStr(s) == [t |-> "str", v |-> s]
PyInt(n) == [t |-> "int", v |-> n]
PyList(xs) == [t |-> "list", v |-> xs]
PyDict(kvs) == [t |-> "dict", v |-> kvs]

IsStr(x) == x.t = "str"
IsDict(x) == x.t = "dict"
IsList(x) == x.t = "list"

\* Python truthiness: bool(x).
Truthy(x) ==
    CASE x.t = "none" -> FALSE
      [] x.t = "str" -> x.v # ""
      [] x.t = "int" -> x.v # 0
      [] x.t = "list" -> Len(x.v) > 0
      [] x.t = "dict" -> Len(x.v) > 0

\* key in d
HasKey(d, k) == \E i \in 1..Len(d.v) : d.v[i][1] = k

\* d.get(k, default)
DictGet(d, k, default) ==
    IF HasKey(d, k)
    THEN d.v[CHOOSE i \in 1..Len(d.v) : d.v[i][1] = k][2]
    ELSE default

\* the keys of a dict
Keys(d) == {d.v[i][1] : i \in 1..Len(d.v)}

(***************************************************************************)
(* Python str methods                                                      *)
(***************************************************************************)
Whitespace == {" ", "\t", "\n", "\r"}

CharAt(s, i) == SubSeq(s, i, i)

\* s.startswith(p), s.endswith(p)
StartsWith(s, p) == Len(s) >= Len(p) /\ SubSeq(s, 1, Len(p)) = p
EndsWith(s, p) == Len(s) >= Len(p) /\ SubSeq(s, Len(s) - Len(p) + 1, Len(s)) = p

\* s.removeprefix(p), s.removesuffix(p)
RemovePrefix(s, p) == IF StartsWith(s, p) THEN SubSeq(s, Len(p) + 1, Len(s)) ELSE s
RemoveSuffix(s, p) == IF EndsWith(s, p) THEN SubSeq(s, 1, Len(s) - Len(p)) ELSE s

\* s.strip(): leading and trailing whitespace removed
Strip(s) ==
    LET keep == {i \in 1..Len(s) : CharAt(s, i) \notin Whitespace}
    IN  IF keep = {} THEN ""
        ELSE SubSeq(s, CHOOSE i \in keep : \A j \in keep : i <= j,
                       CHOOSE i \in keep : \A j \in keep : i >= j)

\* m in s  (substring test)
Contains(s, m) ==
    \E i \in 1..(Len(s) - Len(m) + 1) : SubSeq(s, i, i + Len(m) - 1) = m


\* str.lower() on one character (ASCII)
UpperChars == "ABCDEFGHIJKLMNOPQRSTUVWXYZ"
LowerChars == "abcdefghijklmnopqrstuvwxyz"
LowerChar(c) ==
    IF \E i \in 1..26 : CharAt(UpperChars, i) = c
    THEN CharAt(LowerChars, CHOOSE i \in 1..26 : CharAt(UpperChars, i) = c)
    ELSE c

\* s.lower()
RECURSIVE Lower(_)
Lower(s) == IF s = "" THEN "" ELSE LowerChar(CharAt(s, 1)) \o Lower(Tail(s))

\* s.split(): the maximal runs of non-whitespace characters, in order
RECURSIVE Split(_)
Split(s) ==
    LET t == Strip(s)
        ws == {i \in 1..Len(t) : CharAt(t, i) \in Whitespace}
        cut == IF ws = {} THEN Len(t) + 1 ELSE CHOOSE i \in ws : \A j \in ws : i <= j
    IN  IF t = "" THEN <<>>
        ELSE <<SubSeq(t, 1, cut - 1)>> \o Split(SubSeq(t, cut, Len(t)))

\* str(x) as an f-string renders a value
Digits == "0123456789"
Digit(n) == CharAt(Digits, n + 1)
RECURSIVE NatStr(_)
NatStr(n) == IF n < 10 THEN Digit(n) ELSE NatStr(n \div 10) \o Digit(n % 10)
PyFormat(x) ==
    CASE x.t = "none" -> "None"
      [] x.t = "str" -> x.v
      [] x.t = "int" -> IF x.v < 0 THEN "-" \o NatStr(-x.v) ELSE NatStr(x.v)
      [] OTHER -> "<object>"

\* Byte order of the ASCII characters the model's texts use (SQLite's BINARY
\* collation compares TEXT byte by byte).
Ascii == " ()+,-./0123456789:;<=>?ABCDEFGHIJKLMNOPQRSTUVWXYZ_abcdefghijklmnopqrstuvwxyz"
Ord(c) == CHOOSE i \in 1..Len(Ascii) : CharAt(Ascii, i) = c
StrLt(a, b) ==
    \E i \in 1..Len(b) :
        /\ i <= Len(a) + 1
        /\ SubSeq(a, 1, i - 1) = SubSeq(b, 1, i - 1)
        /\ (i = Len(a) + 1 \/ Ord(CharAt(a, i)) < Ord(CharAt(b, i)))
StrLe(a, b) == a = b \/ StrLt(a, b)

(***************************************************************************)
(* datetime: a date is its day number (days since 1970-01-01); only the    *)
(* date part of datetime.now() is ever used (strftime("%Y-%m-%d")).        *)
(***************************************************************************)
DaysFromCivil(y0, m, d) ==
    LET y == IF m <= 2 THEN y0 - 1 ELSE y0
        era == y \div 400
        yoe == y - era * 400
        mp == IF m > 2 THEN m - 3 ELSE m + 9
        doy == (153 * mp + 2) \div 5 + d - 1
        doe == yoe * 365 + yoe \div 4 - yoe \div 100 + doy
    IN  era * 146097 + doe - 719468

CivilFromDays(n) ==
    LET z == n + 719468
        era == z \div 146097
        doe == z - era * 146097
        yoe == (doe - doe \div 1460 + doe \div 36524 - doe \div 146096) \div 365
        doy == doe - (365 * yoe + yoe \div 4 - yoe \div 100)
        mp == (5 * doy + 2) \div 153
        d == doy - (153 * mp + 2) \div 5 + 1
        m == IF mp < 10 THEN mp + 3 ELSE mp - 9
        y == yoe + era * 400 + (IF m <= 2 THEN 1 ELSE 0)
    IN  <<y, m, d>>

Pad2(n) == Digit(n \div 10) \o Digit(n % 10)
Pad4(n) == Pad2(n \div 100) \o Pad2(n % 100)

\* dt.strftime("%Y-%m-%d")
Strftime(n) ==
    LET c == CivilFromDays(n) IN Pad4(c[1]) \o "-" \o Pad2(c[2]) \o "-" \o Pad2(c[3])

IsDigits(s) == s # "" /\ \A i \in 1..Len(s) : \E k \in 1..10 : CharAt(Digits, k) = CharAt(s, i)
RECURSIVE ToNat(_)
ToNat(s) ==
    IF s = "" THEN 0
    ELSE 10 * ToNat(SubSeq(s, 1, Len(s) - 1))
         + ((CHOOSE k \in 1..10 : CharAt(Digits, k) = CharAt(s, Len(s))) - 1)

DaysInMonth(y, m) ==
    IF m = 2 THEN (IF (y % 4 = 0 /\ y % 100 # 0) \/ y % 400 = 0 THEN 29 ELSE 28)
    ELSE IF m \in {4, 6, 9, 11} THEN 30 ELSE 31

\* datetime.strptime(s, "%Y-%m-%d") on a str: the day number, or ValueError.
\* The year has four digits, month and day one or two.
ValueError == [exc |-> "ValueError"]
Strptime(s) ==
    LET dash == {i \in 1..Len(s) : CharAt(s, i) = "-"}
        d1 == CHOOSE i \in dash : \A j \in dash : i <= j
        d2 == CHOOSE i \in dash : \A j \in dash : i >= j
        ys == SubSeq(s, 1, d1 - 1)
        ms == SubSeq(s, d1 + 1, d2 - 1)
        ds == SubSeq(s, d2 + 1, Len(s))
    IN  IF /\ Cardinality(dash) = 2
           /\ IsDigits(ys) /\ Len(ys) = 4
           /\ IsDigits(ms) /\ Len(ms) \in {1, 2}
           /\ IsDigits(ds) /\ Len(ds) \in {1, 2}
           /\ ToNat(ms) \in 1..12
           /\ ToNat(ys) >= 1
           /\ ToNat(ds) \in 1..DaysInMonth(ToNat(ys), ToNat(ms))
        THEN [ok |-> DaysFromCivil(ToNat(ys), ToNat(ms), ToNat(ds))]
        ELSE ValueError

(***************************************************************************)
(* json: json.dumps(v) is the JSON text of v, kept as [json |-> v] (the    *)
(* values dumped here are str, None, list and dict, which json.loads gives *)
(* back unchanged).  JSON text that comes from the model backend is a      *)
(* string; json.loads on it is json_loads below.                           *)
(***************************************************************************)
json_dumps(v) == [json |-> v]

(***************************************************************************)
(* app/agent_tools.py                                                      *)
(***************************************************************************)
\* The table federal_documents (data_pipeline/db_setup.py): TEXT columns,
\* abstract nullable.
Row(num, type, title, date, abstract, url) ==
    [document_number |-> num, document_type |-> type, title |-> title,
     publication_date |-> date, abstract |-> abstract, html_url |-> url]

federal_documents ==
    { Row("2025-10001", "Presidential Document", "Strengthening Climate Resilience",
          "2025-06-14", PyStr("Directs agencies to assess flood risk."),
          "https://www.federalregister.gov/d/2025-10001"),
      Row("2025-10002", "Presidential Document", "Improving National Cybersecurity",
          "2025-06-10", PyNone,
          "https://www.federalregister.gov/d/2025-10002"),
      Row("2025-20001", "Rule", "Climate Reporting Rule",
          "2025-06-13", PyStr("A rule."),
          "https://www.federalregister.gov/d/2025-20001") }

\* Contents the table can have when the tool reads it (the data pipeline
\* fills it on its own schedule)
MarkerTitleRow ==
    Row("2025-10003", "Presidential Document",
        "No executive orders found to conflict with climate policy",
        "2025-06-12", PyStr("Review of earlier orders."),
        "https://www.federalregister.gov/d/2025-10003")
Stores == {federal_documents, federal_documents \cup {MarkerTitleRow}}

\* datetime.now(), date part
today == DaysFromCivil(2025, 6, 15)

\* x LIKE pattern (SQLite: % any run of characters, _ any one character,
\* ASCII letters compared without case)
RECURSIVE Like(_, _)
Like(s, p) ==
    IF p = "" THEN s = ""
    ELSE IF CharAt(p, 1) = "%"
         THEN \E k \in 0..Len(s) : Like(SubSeq(s, k + 1, Len(s)), Tail(p))
         ELSE /\ s # ""
              /\ (CharAt(p, 1) = "_" \/ LowerChar(CharAt(p, 1)) = LowerChar(CharAt(s, 1)))
              /\ Like(Tail(s), Tail(p))

\* The windows with last_year reaching 364 days back and a date given as
\* text taken as the week ending on it
DateWindowOffByOne(date_range_str, now) ==
    IF date_range_str = PyStr("today") THEN [start |-> now, end |-> now]
    ELSE IF date_range_str = PyStr("yesterday") THEN [start |-> now - 1, end |-> now - 1]
    ELSE IF date_range_str = PyStr("last_7_days") THEN [start |-> now - 6, end |-> now]
    ELSE IF date_range_str = PyStr("last_30_days") THEN [start |-> now - 29, end |-> now]
    ELSE IF date_range_str = PyStr("last_year") THEN [start |-> now - 364, end |-> now]
    ELSE IF ~IsStr(date_range_str) THEN [exc |-> "TypeError"]
    ELSE LET parsed_date == Strptime(date_range_str.v)
         IN  IF "ok" \in DOMAIN parsed_date
             THEN [start |-> parsed_date.ok - 6, end |-> parsed_date.ok]
             ELSE [start |-> now - 6, end |-> now]

\* The [start, end] window of date_range_str: day numbers, or the exception
\* strptime raises on a value that is not a str.
DateWindow(date_range_str, now) ==
    IF date_range_str = PyStr("today") THEN [start |-> now, end |-> now]
    ELSE IF date_range_str = PyStr("yesterday") THEN [start |-> now - 1, end |-> now - 1]
    ELSE IF date_range_str = PyStr("last_7_days") THEN [start |-> now - 6, end |-> now]
    ELSE IF date_range_str = PyStr("last_30_days") THEN [start |-> now - 29, end |-> now]
    ELSE IF date_range_str = PyStr("last_year") THEN [start |-> now - 365, end |-> now]
    ELSE IF ~IsStr(date_range_str) THEN [exc |-> "TypeError"]
    ELSE LET parsed_date == Strptime(date_range_str.v)
         IN  IF "ok" \in DOMAIN parsed_date
             THEN [start |-> parsed_date.ok, end |-> parsed_date.ok]
             ELSE [start |-> now - 6, end |-> now]

\* The WHERE clause for one row
RowMatches(r, start_date_str, end_date_str, processed_keywords) ==
    /\ r.document_type = "Presidential Document"
    /\ StrLe(start_date_str, SubSeq(r.publication_date, 1, 10))
    /\ StrLe(SubSeq(r.publication_date, 1, 10), end_date_str)
    /\ \/ processed_keywords = <<>>
       \/ \E i \in 1..Len(processed_keywords) :
            LET pat == "%" \o processed_keywords[i] \o "%"
            IN  \/ Like(Lower(r.title), pat)
                \/ (IsStr(r.abstract) /\ Like(Lower(r.abstract.v), pat))

\* ORDER BY publication_date DESC LIMIT 10: every order of the matching rows
\* the statement allows (rows of equal publication_date come in any order).
SqlLimit == 10
Min(a, b) == IF a < b THEN a ELSE b
RECURSIVE OrderedRows(_)
OrderedRows(rows) ==
    IF rows = {} THEN {<<>>}
    ELSE UNION { { <<r>> \o q : q \in OrderedRows(rows \ {r}) } :
                 r \in { x \in rows :
                          \A y \in rows : ~StrLt(x.publication_date, y.publication_date) } }
OrderedLimited(rows) ==
    { SubSeq(q, 1, Min(SqlLimit, Len(q))) : q \in OrderedRows(rows) }

\* dict(row_raw) with the abstract placeholder and the date-only prefix
RowDict(r) ==
    PyDict(<< <<"document_number", PyStr(r.document_number)>>,
              <<"title", PyStr(r.title)>>,
              <<"publication_date",
                PyStr(IF r.publication_date # ""
                      THEN LET sp == {i \in 1..Len(r.publication_date) :
                                        CharAt(r.publication_date, i) = " "}
                           IN  IF sp = {} THEN r.publication_date
                               ELSE SubSeq(r.publication_date, 1,
                                           (CHOOSE i \in sp : \A j \in sp : i <= j) - 1)
                      ELSE r.publication_date)>>,
              <<"abstract", IF Truthy(r.abstract) THEN r.abstract
                            ELSE PyStr("No abstract available.")>>,
              <<"html_url", PyStr(r.html_url)>> >>)

DbStates == {"ok", "connect_error", "execute_error"}

DatabaseErrorMarker == json_dumps(PyDict(<< <<"error", PyStr("A database error occurred.")>> >>))
UnexpectedErrorMarker ==
    json_dumps(PyDict(<< <<"error", PyStr("An unexpected error occurred in the tool.")>> >>))
NoDocumentsMarker ==
    json_dumps(PyDict(<< <<"message",
        PyStr("No relevant executive orders found matching your criteria in the database.")>> >>))

\* search_federal_executive_orders(query_keywords, date_range_str): the set
\* of strings it can return, given the table, the date and the database's state.
search_federal_executive_orders(query_keywords, date_range_str, table, now, db) ==
    LET window == DateWindow(date_range_str, now)
        use_keywords == Truthy(query_keywords)
        processed_keywords ==
            IF use_keywords /\ IsStr(query_keywords)
            THEN Split(Lower(Strip(query_keywords.v))) ELSE <<>>
        rows == IF "exc" \in DOMAIN window THEN {}
                ELSE {r \in table : RowMatches(r, Strftime(window.start),
                                               Strftime(window.end), processed_keywords)}
    IN  IF db = "connect_error" THEN {DatabaseErrorMarker}
        ELSE IF "exc" \in DOMAIN window THEN {UnexpectedErrorMarker}
        ELSE IF use_keywords /\ ~IsStr(query_keywords) THEN {UnexpectedErrorMarker}
        ELSE IF db = "execute_error" THEN {DatabaseErrorMarker}
        ELSE IF rows = {} THEN {NoDocumentsMarker}
        ELSE { json_dumps(PyList([i \in 1..Len(q) |-> RowDict(q[i])])) :
                 q \in OrderedLimited(rows) }

\* The call binding only the keywords the function has and dropping the rest
CallToolDroppingUnknown(kwargs, table, now, db) ==
    { [ret |-> s] :
        s \in search_federal_executive_orders(
                 DictGet(kwargs, "query_keywords", PyNone),
                 DictGet(kwargs, "date_range_str", PyStr("last_7_days")),
                 table, now, db) }

\* available_tools[name](**kwargs): binding the keyword arguments to the
\* parameters (with their defaults), then the call.  A keyword the function
\* does not have raises TypeError.
ToolParams == {"query_keywords", "date_range_str"}
CallTool(kwargs, table, now, db) ==
    IF ~(Keys(kwargs) \subseteq ToolParams) THEN {[exc |-> "TypeError"]}
    ELSE { [ret |-> s] :
             s \in search_federal_executive_orders(
                      DictGet(kwargs, "query_keywords", PyNone),
                      DictGet(kwargs, "date_range_str", PyStr("last_7_days")),
                      table, now, db) }

\* available_tools, ollama_tool_definitions
SearchToolName == "search_federal_executive_orders"
available_tools == {SearchToolName}
ToolSchema(name) == [type |-> "function", function |-> [name |-> name]]
ollama_tool_definitions == <<ToolSchema(SearchToolName)>>

(***************************************************************************)
(* What the model backend can answer.  Text that the handler may hand to   *)
(* json.loads is listed in JsonTexts with the value json.loads gives; any  *)
(* other text of the model is not JSON (json.JSONDecodeError).             *)
(***************************************************************************)
ClimateArgs == PyDict(<< <<"query_keywords", PyStr("climate")>> >>)
ClimateArgsText == "{\"query_keywords\": \"climate\"}"
ArgsOnlyText == "{\"type\": \"function\", \"arguments\": {\"query_keywords\": \"climate\"}}"
ArgsOnlyWrappedText == " <toolcall>\n" \o ArgsOnlyText \o "\n</toolcall>\n"
WithFunctionText ==
    "{\"type\": \"function\", \"function\": {\"name\": \"search_federal_executive_orders\"}, \"arguments\": {\"query_keywords\": \"climate\"}}"
FunctionNullText ==
    "{\"type\": \"function\", \"function\": null, \"arguments\": {\"query_keywords\": \"climate\"}}"
ArgsNullText == "{\"type\": \"function\", \"arguments\": null}"
ArgsStringText == "{\"type\": \"function\", \"arguments\": \"{}\"}"
OtherTypeText == "{\"type\": \"text\", \"arguments\": {}}"
NoArgumentsText == "{\"type\": \"function\"}"
JsonListText == "[1, 2]"

JsonTexts ==
    { <<ClimateArgsText, ClimateArgs>>,
      <<"{}", PyDict(<<>>)>>,
      <<ArgsOnlyText,
        PyDict(<< <<"type", PyStr("function")>>, <<"arguments", ClimateArgs>> >>)>>,
      <<WithFunctionText,
        PyDict(<< <<"type", PyStr("function")>>,
                  <<"function", PyDict(<< <<"name", PyStr(SearchToolName)>> >>)>>,
                  <<"arguments", ClimateArgs>> >>)>>,
      <<FunctionNullText,
        PyDict(<< <<"type", PyStr("function")>>, <<"function", PyNone>>,
                  <<"arguments", ClimateArgs>> >>)>>,
      <<ArgsNullText,
        PyDict(<< <<"type", PyStr("function")>>, <<"arguments", PyNone>> >>)>>,
      <<ArgsStringText,
        PyDict(<< <<"type", PyStr("function")>>, <<"arguments", PyStr("{}")>> >>)>>,
      <<OtherTypeText,
        PyDict(<< <<"type", PyStr("text")>>, <<"arguments", PyDict(<<>>)>> >>)>>,
      <<NoArgumentsText, PyDict(<< <<"type", PyStr("function")>> >>)>>,
      <<JsonListText, PyList(<<PyInt(1), PyInt(2)>>)>> }

\* json.loads(s) for a str s: [ok |-> value], or JSONDecodeError
JSONDecodeError == [exc |-> "JSONDecodeError"]
json_loads(s) ==
    IF \E e \in JsonTexts : e[1] = s
    THEN [ok |-> (CHOOSE e \in JsonTexts : e[1] = s)[2]]
    ELSE JSONDecodeError

\* json.loads(tool_result_json_string) on a string json.dumps made
json_loads_result(r) == [ok |-> r.json]

\* str(e) of the AttributeError that x.<attr> raises
TypeName(x) ==
    CASE x.t = "none" -> "NoneType"
      [] x.t = "list" -> "list"
      [] OTHER -> x.t
AttributeError(x, attr) ==
    "'" \o TypeName(x) \o "' object has no attribute '" \o attr \o "'"

(***************************************************************************)
(* app/main.py, chat(): the code between the awaits, as operators          *)
(***************************************************************************)
HistoryLimit == 20

Message(role, content) == [role |-> role, content |-> content]

system_instruction_text_tool_invocation ==
    "You are an AI assistant with access to a tool called 'search_federal_executive_orders'."

\* lines 96-98: the prompt of the turn
BuildPrompt(history, user_message) ==
    <<Message("system", system_instruction_text_tool_invocation)>>
        \o history \o <<Message("user", user_message)>>

\* line 257 keeping the first entries instead of the last
TruncateHistoryKeepOldest(history) ==
    IF Len(history) > HistoryLimit THEN SubSeq(history, 1, HistoryLimit) ELSE history

\* line 257
TruncateHistory(history) ==
    IF Len(history) > HistoryLimit
    THEN SubSeq(history, Len(history) - HistoryLimit + 1, Len(history))
    ELSE history

\* lines 255-257 with the two appends in the other order
CommitHistoryAssistantFirst(history, user_message, final_agent_response_text) ==
    TruncateHistory(history \o <<Message("assistant", final_agent_response_text),
                                 Message("user", user_message)>>)

\* lines 255-257
CommitHistory(history, user_message, final_agent_response_text) ==
    TruncateHistory(history \o <<Message("user", user_message),
                                 Message("assistant", final_agent_response_text)>>)

\* lines 133-135: strip, then drop a surrounding <toolcall>...</toolcall>
ContentText(content) ==
    LET content_text == Strip(content)
    IN  IF StartsWith(content_text, "<toolcall>") /\ EndsWith(content_text, "</toolcall>")
        THEN Strip(RemoveSuffix(RemovePrefix(content_text, "<toolcall>"), "</toolcall>"))
        ELSE content_text

\* lines 139-143 without the test of `arguments'
IsArgsOnlyToolCallRequiringName(parsed, tools_for_this_call) ==
    /\ IsDict(parsed)
    /\ DictGet(parsed, "type", PyNone) = PyStr("function")
    /\ Truthy(DictGet(parsed, "function", PyNone))
    /\ Len(tools_for_this_call) = 1

\* lines 139-143: is the parsed content an args-only tool call?
IsArgsOnlyToolCall(parsed, tools_for_this_call) ==
    /\ IsDict(parsed)
    /\ DictGet(parsed, "type", PyNone) = PyStr("function")
    /\ HasKey(parsed, "arguments")
    /\ ~Truthy(DictGet(parsed, "function", PyNone))
    /\ Len(tools_for_this_call) > 0
    /\ Len(tools_for_this_call) = 1

\* What classification leaves behind: the exception it raised (str(e)) or
\* None, the branch taken, and the locals the rest of the handler reads.
Classified(exc, branch, executed, candidates, text) ==
    [exc |-> exc, branch |-> branch, tool_executed_this_turn |-> executed,
     tool_call_candidates |-> candidates, final_agent_response_text |-> text]

\* lines 132-157: no structured tool call
ClassifyContent(role, content, tools_for_this_call, initial) ==
    IF Truthy(content)
    THEN IF ~IsStr(content)
         THEN Classified(PyStr(AttributeError(content, "strip")), "raised",
                         FALSE, <<>>, initial)
         ELSE LET content_text == ContentText(content.v)
                  parsed == json_loads(content_text)
              IN  IF "exc" \in DOMAIN parsed
                  THEN Classified(PyNone, "plain", FALSE, <<>>, content_text)
                  ELSE IF IsArgsOnlyToolCall(parsed.ok, tools_for_this_call)
                  THEN LET assumed_tool_name == tools_for_this_call[1].function.name
                       IN  Classified(PyNone, "embedded", TRUE,
                             << PyDict(<< <<"id", PyStr("content_assumed_tool_"
                                                      \o assumed_tool_name)>>,
                                          <<"type", PyStr("function")>>,
                                          <<"function",
                                            PyDict(<< <<"name", PyStr(assumed_tool_name)>>,
                                                      <<"arguments",
                                                        DictGet(parsed.ok, "arguments", PyNone)>> >>)>> >>) >>,
                             initial)
                  ELSE Classified(PyNone, "json_text", FALSE, <<>>, content_text)
    ELSE IF role = PyStr("assistant")
         THEN Classified(PyNone, "empty", FALSE, <<>>, "AI empty response.")
         ELSE Classified(PyNone, "unexpected", FALSE, <<>>, "AI unexpected response.")

\* Classify with the two tests of lines 128 and 132 in the other order
ClassifyContentFirst(ollama_response_data, tools_for_this_call) ==
    LET raw == DictGet(ollama_response_data, "message", PyDict(<<>>))
        role == DictGet(raw, "role", PyStr("assistant"))
        content == DictGet(raw, "content", PyNone)
        tool_calls == DictGet(raw, "tool_calls", PyNone)
        initial == "I'm sorry, an issue occurred."
    IN  IF ~IsDict(raw)
        THEN Classified(PyStr(AttributeError(raw, "get")), "raised", FALSE, <<>>, initial)
        ELSE IF Truthy(content) \/ ~Truthy(tool_calls)
        THEN ClassifyContent(role, content, tools_for_this_call, initial)
        ELSE Classified(PyNone, "structured", TRUE, tool_calls.v, initial)

\* lines 100, 117-157
Classify(ollama_response_data, tools_for_this_call) ==
    LET raw == DictGet(ollama_response_data, "message", PyDict(<<>>))
        role == DictGet(raw, "role", PyStr("assistant"))
        content == DictGet(raw, "content", PyNone)
        tool_calls == DictGet(raw, "tool_calls", PyNone)
        initial == "I'm sorry, an issue occurred."
    IN  IF ~IsDict(raw)
        THEN Classified(PyStr(AttributeError(raw, "get")), "raised", FALSE, <<>>, initial)
        ELSE IF Truthy(tool_calls)
        THEN Classified(PyNone, "structured", TRUE, tool_calls.v, initial)
        ELSE ClassifyContent(role, content, tools_for_this_call, initial)

\* lines 175-188 going on with empty arguments where the code breaks
NormalizeArgsUsingEmpty(tool_name, tool_args_raw) ==
    IF IsStr(tool_args_raw)
    THEN LET parsed == json_loads(tool_args_raw.v)
         IN  IF "exc" \in DOMAIN parsed THEN [ok |-> PyDict(<<>>)] ELSE [ok |-> parsed.ok]
    ELSE IF IsDict(tool_args_raw) THEN [ok |-> tool_args_raw]
    ELSE [ok |-> PyDict(<<>>)]

\* lines 175-188: the keyword arguments of the call, or the error text
NormalizeArgs(tool_name, tool_args_raw) ==
    IF IsStr(tool_args_raw)
    THEN LET parsed == json_loads(tool_args_raw.v)
         IN  IF "exc" \in DOMAIN parsed
             THEN [err |-> "Error: Invalid arguments for tool " \o tool_name \o "."]
             ELSE [ok |-> parsed.ok]
    ELSE IF IsDict(tool_args_raw) THEN [ok |-> tool_args_raw]
    ELSE [err |-> "Error: Tool arguments for " \o tool_name \o " had an unexpected type."]

\* What the loop over the candidates comes to before any await:
\*   "formatted": formatted_markdown_for_final_response is set, no call made;
\*   "call": await asyncio.to_thread(tool, **tool_args) for candidate `index';
\*   "raised": an exception left the loop (str(e) in text).
LoopResult(kind, text, index, tool_name, tool_args) ==
    [kind |-> kind, text |-> text, index |-> index,
     tool_name |-> tool_name, tool_args |-> tool_args]

\* line 229 without the break
AfterIterationNoBreak(tool_call_candidates, i) == i + 1

\* line 229: the candidate the loop goes on with once candidate i has been
\* called (break: none)
AfterIteration(tool_call_candidates, i) == Len(tool_call_candidates) + 1

\* line 225
SystemErrorText(tool_name) == "System error during " \o tool_name \o " execution."

\* lines 163-229, from candidate i on, with the current value of
\* formatted_markdown_for_final_response
RECURSIVE RunLoop(_, _, _)
RunLoop(tool_call_candidates, i, formatted) ==
    IF i > Len(tool_call_candidates)
    THEN LoopResult("formatted", formatted, 0, "", PyNone)
    ELSE LET tool_call == tool_call_candidates[i]
         IN  IF ~IsDict(tool_call) \/ ~HasKey(tool_call, "function")
             THEN RunLoop(tool_call_candidates, i + 1, formatted)
             ELSE LET tool_function_data == DictGet(tool_call, "function", PyNone)
                      tool_name == DictGet(tool_function_data, "name", PyNone)
                      tool_args_raw == DictGet(tool_function_data, "arguments", PyDict(<<>>))
                      name == PyFormat(tool_name)
                      tool_args == NormalizeArgs(name, tool_args_raw)
                  IN  IF ~IsDict(tool_function_data)
                      THEN LoopResult("raised", AttributeError(tool_function_data, "get"),
                                      i, "", PyNone)
                      ELSE IF ~Truthy(tool_name)
                      THEN LoopResult("formatted",
                                      "Error: Tool call was malformed (missing name).",
                                      i, "", PyNone)
                      ELSE IF "err" \in DOMAIN tool_args
                      THEN LoopResult("formatted", tool_args.err, i, name, PyNone)
                      ELSE IF name \in available_tools /\ ~IsDict(tool_args.ok)
                      THEN \* line 194: **tool_args of a non-mapping raises TypeError
                           \* before the call; lines 223-225, then line 229
                           RunLoop(tool_call_candidates,
                                   AfterIteration(tool_call_candidates, i),
                                   SystemErrorText(name))
                      ELSE IF name \in available_tools
                      THEN LoopResult("call", formatted, i, name, tool_args.ok)
                      ELSE LoopResult("formatted",
                                      "Error: Tool '" \o name \o "' not available.",
                                      i, name, PyNone)

\* line 161
DefaultFormatted == "Error processing tool results."

\* "\n---\n".join(md_items)
RECURSIVE Join(_, _)
Join(items, sep) ==
    IF Len(items) = 0 THEN ""
    ELSE IF Len(items) = 1 THEN items[1]
    ELSE items[1] \o sep \o Join(Tail(items), sep)

\* lines 206-211
DocBlock(doc) ==
    "- **Title:** " \o PyFormat(DictGet(doc, "title", PyStr("N/A"))) \o "\n"
    \o "- **Document Number:** " \o PyFormat(DictGet(doc, "document_number", PyStr("N/A"))) \o "\n"
    \o "- **Publication Date:** " \o PyFormat(DictGet(doc, "publication_date", PyStr("N/A"))) \o "\n"
    \o "- **Link:** [Read Document](" \o PyFormat(DictGet(doc, "html_url", PyStr("#"))) \o ")"

\* lines 197-220: the tool's string to formatted_markdown_for_final_response
FormatToolResult(tool_result_json_string) ==
    LET parsed == json_loads_result(tool_result_json_string)
        tool_data == parsed.ok
    IN  IF "exc" \in DOMAIN parsed THEN "Error: Tool data invalid."
        ELSE IF IsDict(tool_data) /\ Truthy(DictGet(tool_data, "message", PyNone))
        THEN PyFormat(DictGet(tool_data, "message", PyNone))
        ELSE IF IsDict(tool_data) /\ Truthy(DictGet(tool_data, "error", PyNone))
        THEN "Error from tool: " \o PyFormat(DictGet(tool_data, "error", PyNone))
        ELSE IF IsList(tool_data) /\ Truthy(tool_data)
        THEN Join([i \in 1..Len(tool_data.v) |-> DocBlock(tool_data.v[i])], "\n---\n")
        ELSE IF IsList(tool_data)
        THEN "No executive orders found for the given criteria."
        ELSE "Received an unusual response from search."

\* lines 193-225: what one outcome of the call (a returned string or a raised
\* exception) leaves in formatted_markdown_for_final_response
AfterCall(tool_name, outcome) ==
    IF "exc" \in DOMAIN outcome THEN SystemErrorText(tool_name)
    ELSE FormatToolResult(outcome.ret)

LeadIn == "Okay, I found the following executive orders based on your request:\n\n"

ErrorMarkers ==
    { "No executive orders found", "Error from tool", "Error: Tool data invalid",
      "System error during", "Error: Tool call was malformed",
      "Error: Invalid arguments for tool", "Error: Tool arguments for", "Error: Tool '" }

\* lines 232-242
Envelope(formatted_markdown_for_final_response) ==
    IF \E m \in ErrorMarkers : Contains(formatted_markdown_for_final_response, m)
    THEN formatted_markdown_for_final_response
    ELSE LeadIn \o formatted_markdown_for_final_response

\* lines 248-250 letting the exception go
ExceptHandlerReraising(e) == [raise |-> e]

\* lines 248-250: what the handler does with an exception raised inside the
\* try block: [reply |-> text] to go on to line 255, [raise |-> text] to let
\* it leave the handler.
ExceptHandler(e) == [reply |-> "Unexpected error: " \o e]

(***************************************************************************)
(* Inputs: user messages, answers of the model backend, its failures       *)
(***************************************************************************)
UserMessages == {"What executive orders about climate came out this week?", "hello"}

ResponseOf(fields) == PyDict(<< <<"message", PyDict(fields)>> >>)
Assistant == <<"role", PyStr("assistant")>>
ToolCall(id, function) ==
    PyDict(<< <<"id", PyStr(id)>>, <<"type", PyStr("function")>>, <<"function", function>> >>)
Function(name, arguments) ==
    PyDict(<< <<"name", PyStr(name)>>, <<"arguments", arguments>> >>)
Keywords(q) == PyDict(<< <<"query_keywords", PyStr(q)>> >>)

\* Shapes of the first proposed tool call
FirstToolCalls ==
    { PyStr(SearchToolName),
      PyDict(<< <<"id", PyStr("call_1")>> >>),
      ToolCall("call_1", PyStr(SearchToolName)),
      ToolCall("call_1", PyDict(<< <<"arguments", ClimateArgs>> >>)),
      ToolCall("call_1", PyDict(<< <<"name", PyStr(SearchToolName)>> >>)),
      ToolCall("call_1", Function(SearchToolName, ClimateArgs)),
      ToolCall("call_1", Function(SearchToolName, Keywords("zzz"))),
      ToolCall("call_1", Function(SearchToolName,
                                  PyDict(<< <<"keywords", PyStr("climate")>> >>))),
      ToolCall("call_1", Function(SearchToolName, PyStr(ClimateArgsText))),
      ToolCall("call_1", Function(SearchToolName, PyStr("query_keywords=climate"))),
      ToolCall("call_1", Function(SearchToolName, PyStr(JsonListText))),
      ToolCall("call_1", Function(SearchToolName, PyNone)),
      ToolCall("call_1", Function("get_weather", ClimateArgs)),
      ToolCall("call_1", Function("get_weather", PyStr("city: Paris"))) }

\* A second proposed tool call
SecondToolCalls ==
    { ToolCall("call_2", Function(SearchToolName, Keywords("cybersecurity"))),
      ToolCall("call_2", Function("get_weather", ClimateArgs)) }

ToolCallLists ==
    {<<a>> : a \in FirstToolCalls} \cup {<<a, b>> : a \in FirstToolCalls, b \in SecondToolCalls}

\* Contents sent along with structured tool calls
ContentsWithToolCalls == {PyNone, PyStr("Let me look that up."), PyStr(ArgsOnlyText)}

\* Contents of an answer without tool calls
ContentsAlone ==
    { PyNone, PyStr(""), PyStr("   "), PyInt(7),
      PyStr("I can search federal executive orders for you."),
      PyStr("  Hello! How can I help?\n"),
      PyStr("<toolcall>search climate</toolcall>"),
      PyStr("<toolcall> </toolcall>"),
      PyStr(ArgsOnlyText), PyStr(ArgsOnlyWrappedText), PyStr(WithFunctionText),
      PyStr(FunctionNullText), PyStr(ArgsNullText), PyStr(ArgsStringText),
      PyStr(OtherTypeText), PyStr(NoArgumentsText), PyStr(JsonListText) }

Responses ==
    { ResponseOf(<<Assistant, <<"content", c>>, <<"tool_calls", PyList(tcs)>> >>) :
        c \in ContentsWithToolCalls, tcs \in ToolCallLists }
    \cup { ResponseOf(<<Assistant, <<"content", c>> >>) : c \in ContentsAlone }
    \cup { ResponseOf(<<Assistant, <<"content", PyStr("Hi.")>>, <<"tool_calls", PyList(<<>>)>> >>),
           ResponseOf(<< <<"role", PyStr("tool")>>, <<"content", PyStr("")>> >>),
           PyDict(<<>>),
           PyDict(<< <<"message", PyNone>> >>) }

\* str(e) of what ollama_client.chat can raise
BackendErrors ==
    { "[Errno 111] Connection refused",
      "model 'qwen2:7b-instruct' not found, try pulling it first" }

(***************************************************************************)
(* State                                                                   *)
(***************************************************************************)
VARIABLES
    chat_history,    \* the module-level list of main.py, line 68
    ollama_client,   \* TRUE when lines 39-48 built a client, FALSE when None
    req,             \* per request handler: where it is in chat() and its locals
    started,         \* number of POST /chat requests received so far
    appended,        \* every entry ever appended to chat_history, with its turn
    search           \* a call of the search tool on its own: arguments, locals, result

vars == <<chat_history, ollama_client, req, started, appended, search>>

Handlers == {"h1", "h2"}

NoResponse == [t |-> "none"]
Returned(r) == [t |-> "returned", v |-> r]
Raised(e) == [t |-> "raised", v |-> e]

Idle ==
    [pc |-> "idle", turn |-> 0, user_message |-> "", current_turn_messages |-> <<>>,
     response |-> NoResponse, branch |-> "", tool_call_candidates |-> <<>>,
     index |-> 0, tool_name |-> "", tool_args |-> PyNone,
     formatted_markdown_for_final_response |-> "", calls |-> <<>>,
     final_agent_response_text |-> ""]

\* No call of the search tool on its own
NoSearch == [pc |-> "none"]

Init ==
    /\ chat_history = <<>>
    /\ ollama_client \in BOOLEAN
    /\ req = [h \in Handlers |-> Idle]
    /\ started = 0
    /\ appended = <<>>
    /\ search = NoSearch

(***************************************************************************)
(* chat(): the steps between its awaits                                    *)
(***************************************************************************)
\* The handler ends: with [reply |-> text] lines 255-259 run (append, append,
\* truncate, return); with [raise |-> e] the exception leaves chat().
Finish(h, loc, result) ==
    IF "reply" \in DOMAIN result
    THEN /\ chat_history' = CommitHistory(chat_history, loc.user_message, result.reply)
         /\ appended' = appended \o
              << [turn |-> loc.turn, role |-> "user", content |-> loc.user_message],
                 [turn |-> loc.turn, role |-> "assistant", content |-> result.reply] >>
         /\ req' = [req EXCEPT ![h] = [loc EXCEPT !.pc = "replied",
                                                  !.final_agent_response_text = result.reply]]
    ELSE /\ req' = [req EXCEPT ![h] = [loc EXCEPT !.pc = "failed"]]
         /\ UNCHANGED <<chat_history, appended>>

\* The loop has come to r (see RunLoop): reply, or suspend in the tool call.
Proceed(h, loc, r) ==
    IF r.kind = "raised" THEN Finish(h, loc, ExceptHandler(r.text))
    ELSE IF r.kind = "formatted"
    THEN Finish(h, [loc EXCEPT !.formatted_markdown_for_final_response = r.text,
                               !.index = r.index],
                [reply |-> Envelope(r.text)])
    ELSE /\ req' = [req EXCEPT ![h] =
                      [loc EXCEPT !.pc = "awaiting_tool", !.index = r.index,
                                  !.tool_name = r.tool_name, !.tool_args = r.tool_args,
                                  !.formatted_markdown_for_final_response = r.text]]
         /\ UNCHANGED <<chat_history, appended>>

\* POST /chat arrives: lines 80-114 up to the await of the model call, or,
\* without a client, the whole handler (lines 251-259).
Begin(h, user_message, limit) ==
    /\ req[h].pc \in {"idle", "replied", "failed"}
    /\ started < limit
    /\ started' = started + 1
    /\ LET loc == [Idle EXCEPT !.turn = started + 1,
                               !.user_message = user_message,
                               !.current_turn_messages =
                                   BuildPrompt(chat_history, user_message)]
       IN  IF ollama_client
           THEN /\ req' = [req EXCEPT ![h] = [loc EXCEPT !.pc = "awaiting_model"]]
                /\ UNCHANGED <<chat_history, appended>>
           ELSE Finish(h, [loc EXCEPT !.branch = "no_client"],
                       [reply |-> "AI assistant not configured."])
    /\ UNCHANGED <<ollama_client, search>>

\* ollama_client.chat returns: lines 115-259, up to the await of the tool
\* call if the loop reaches one.
ModelReturns(h, ollama_response_data) ==
    /\ req[h].pc = "awaiting_model"
    /\ LET c == Classify(ollama_response_data, ollama_tool_definitions)
           loc == [req[h] EXCEPT !.response = Returned(ollama_response_data),
                                 !.branch = c.branch,
                                 !.tool_call_candidates = c.tool_call_candidates]
       IN  IF c.exc # PyNone THEN Finish(h, loc, ExceptHandler(c.exc.v))
           ELSE IF c.tool_executed_this_turn /\ c.tool_call_candidates # <<>>
           THEN Proceed(h, loc, RunLoop(c.tool_call_candidates, 1, DefaultFormatted))
           ELSE Finish(h, loc, [reply |-> c.final_agent_response_text])
    /\ UNCHANGED <<ollama_client, started, search>>

\* ollama_client.chat raises e: lines 248-259
ModelRaises(h, e) ==
    /\ req[h].pc = "awaiting_model"
    /\ Finish(h, [req[h] EXCEPT !.response = Raised(e), !.branch = "backend_error"],
              ExceptHandler(e))
    /\ UNCHANGED <<ollama_client, started, search>>

\* The tool call returns or raises: lines 194-259
ToolCompletes(h, table, db) ==
    /\ req[h].pc = "awaiting_tool"
    /\ \E outcome \in CallTool(req[h].tool_args, table, today, db) :
         LET formatted == AfterCall(req[h].tool_name, outcome)
             loc == [req[h] EXCEPT !.calls = Append(@, [index |-> req[h].index,
                                                          tool_name |-> req[h].tool_name,
                                                          tool_args |-> req[h].tool_args,
                                                          outcome |-> outcome]),
                                   !.formatted_markdown_for_final_response = formatted]
         IN  Proceed(h, loc, RunLoop(req[h].tool_call_candidates,
                                     AfterIteration(req[h].tool_call_candidates, req[h].index),
                                     formatted))
    /\ UNCHANGED <<ollama_client, started, search>>

(***************************************************************************)
(* Specifications                                                          *)
(***************************************************************************)
MaxTurns == 1

\* One request at a time, every answer of the model backend
Next ==
    \/ \E m \in UserMessages : Begin("h1", m, MaxTurns)
    \/ \E r \in Responses : ModelReturns("h1", r)
    \/ \E e \in BackendErrors : ModelRaises("h1", e)
    \/ \E table \in Stores, db \in DbStates : ToolCompletes("h1", table, db)

Spec == Init /\ [][Next]_vars

\* One request at a time over many turns, to take chat_history past its
\* limit: the user message names its turn, the backend answers with text or
\* fails.
MaxHistoryTurns == 12
HistoryResponses ==
    { ResponseOf(<<Assistant, <<"content", PyStr("I can search federal executive orders for you.")>> >>) }
HistoryErrors == {"[Errno 111] Connection refused"}

NextHistory ==
    \/ Begin("h1", "message " \o NatStr(started + 1), MaxHistoryTurns)
    \/ \E r \in HistoryResponses : ModelReturns("h1", r)
    \/ \E e \in HistoryErrors : ModelRaises("h1", e)

SpecHistory == Init /\ [][NextHistory]_vars

\* The search tool called on its own: every combination of arguments, date,
\* table contents and database state below.
MaxBulkRows == 11
BulkStore ==
    { Row("2025-3" \o Pad4(i), "Presidential Document", "Order " \o NatStr(i),
          Strftime(today - i), PyNone,
          "https://www.federalregister.gov/d/2025-3" \o Pad4(i)) : i \in 1..MaxBulkRows }
TiedStore ==
    { Row("2025-10004", "Presidential Document", "Securing Supply Chains",
          "2025-06-14", PyStr("Climate and trade."),
          "https://www.federalregister.gov/d/2025-10004"),
      Row("2025-10001", "Presidential Document", "Strengthening Climate Resilience",
          "2025-06-14", PyStr("Directs agencies to assess flood risk."),
          "https://www.federalregister.gov/d/2025-10001"),
      Row("2024-00310", "Presidential Document", "Leap Day Proclamation",
          "2024-02-29", PyNone,
          "https://www.federalregister.gov/d/2024-00310") }
SearchStores == Stores \cup {{}, BulkStore, TiedStore}
SearchDates ==
    {today, DaysFromCivil(2024, 3, 1), DaysFromCivil(2025, 1, 1)}
DateRangeTokens == {"today", "yesterday", "last_7_days", "last_30_days", "last_year"}
DateRangeInputs ==
    {PyStr(t) : t \in DateRangeTokens}
    \cup { PyStr("2025-06-14"), PyStr("2024-02-29"), PyStr("2025-6-9"),
           PyStr("last week"), PyStr("2025-02-30"), PyStr("2025-06-14 "),
           PyStr(""), PyStr("TODAY"), PyNone, PyInt(7) }
KeywordInputs ==
    { PyNone, PyStr(""), PyStr("  "), PyStr("climate"), PyStr("CLIMATE zzz"),
      PyStr(" flood\tcyber "), PyStr("climate_resilience"), PyStr("zzz"), PyInt(5) }

SearchCall(query_keywords, date_range_str, table, now, db) ==
    [pc |-> "called", query_keywords |-> query_keywords,
     date_range_str |-> date_range_str, table |-> table, now |-> now, db |-> db,
     start_date_dt |-> PyNone, end_date_dt |-> PyNone,
     start_date_str |-> PyNone, end_date_str |-> PyNone, result |-> PyNone]

InitSearch ==
    /\ chat_history = <<>>
    /\ ollama_client = TRUE
    /\ req = [h \in Handlers |-> Idle]
    /\ started = 0
    /\ appended = <<>>
    /\ search \in { SearchCall(k, d, t, n, db) :
                      k \in KeywordInputs, d \in DateRangeInputs,
                      t \in SearchStores, n \in SearchDates, db \in DbStates }

\* search_federal_executive_orders runs from line 58 to its return; the
\* locals of lines 65-81 are kept as far as the run assigned them.
SearchRuns ==
    /\ search.pc = "called"
    /\ LET window == DateWindow(search.date_range_str, search.now)
           assigned == search.db # "connect_error" /\ "start" \in DOMAIN window
       IN  \E s \in search_federal_executive_orders(search.query_keywords,
                        search.date_range_str, search.table, search.now, search.db) :
             search' = [search EXCEPT
                          !.pc = "returned",
                          !.start_date_dt = IF assigned THEN PyInt(window.start) ELSE PyNone,
                          !.end_date_dt = IF assigned THEN PyInt(window.end) ELSE PyNone,
                          !.start_date_str =
                              IF assigned THEN PyStr(Strftime(window.start)) ELSE PyNone,
                          !.end_date_str =
                              IF assigned THEN PyStr(Strftime(window.end)) ELSE PyNone,
                          !.result = s]
    /\ UNCHANGED <<chat_history, ollama_client, req, started, appended>>

NextSearch == SearchRuns

SpecSearch == InitSearch /\ [][NextSearch]_vars

\* Two requests in flight over the one chat_history: each handler is
\* suspended in the model call and, on the tool path, in the tool call, and
\* the other runs meanwhile.
MaxConcurrentTurns == 12
\* The turns that were served one after the other before the concurrent ones
\* (SpecHistory reaches this state): each answered with text.
PriorTurns == 9
PriorReply == "I can search federal executive orders for you."
PriorAppended ==
    [i \in 1..(2 * PriorTurns) |->
        IF i % 2 = 1
        THEN [turn |-> (i + 1) \div 2, role |-> "user",
              content |-> "message " \o NatStr((i + 1) \div 2)]
        ELSE [turn |-> i \div 2, role |-> "assistant", content |-> PriorReply]]

InitConcurrent ==
    /\ chat_history = [i \in 1..(2 * PriorTurns) |->
                         Message(PriorAppended[i].role, PriorAppended[i].content)]
    /\ ollama_client = TRUE
    /\ req = [h \in Handlers |-> Idle]
    /\ started = PriorTurns
    /\ appended = PriorAppended
    /\ search = NoSearch

ConcurrentResponses ==
    { ResponseOf(<<Assistant, <<"content", PyStr("I can search federal executive orders for you.")>> >>),
      ResponseOf(<<Assistant, <<"content", PyNone>>,
                   <<"tool_calls",
                     PyList(<<ToolCall("call_1", Function(SearchToolName, ClimateArgs))>>)>> >>) }

NextConcurrent ==
    \/ \E h \in Handlers : Begin(h, "message " \o NatStr(started + 1), MaxConcurrentTurns)
    \/ \E h \in Handlers, r \in ConcurrentResponses : ModelReturns(h, r)
    \/ \E h \in Handlers, e \in HistoryErrors : ModelRaises(h, e)
    \/ \E h \in Handlers : ToolCompletes(h, federal_documents, "ok")

SpecConcurrent == InitConcurrent /\ [][NextConcurrent]_vars

(***************************************************************************)
(* Claims                                                                  *)
(***************************************************************************)
\* What the backend answered in h's turn, when it answered
HasAnswer(h) == req[h].response.t = "returned"
AnswerMessage(h) == DictGet(req[h].response.v, "message", PyDict(<<>>))
AnswerContent(h) == DictGet(AnswerMessage(h), "content", PyNone)
AnswerToolCalls(h) == DictGet(AnswerMessage(h), "tool_calls", PyNone)
HasStructuredToolCalls(h) ==
    HasAnswer(h) /\ IsDict(AnswerMessage(h)) /\ IsList(AnswerToolCalls(h))
    /\ Len(AnswerToolCalls(h).v) > 0
\* An answer with text content and no structured tool call
HasTextOnly(h) ==
    HasAnswer(h) /\ IsDict(AnswerMessage(h)) /\ ~Truthy(AnswerToolCalls(h))
    /\ IsStr(AnswerContent(h)) /\ AnswerContent(h).v # ""
Replied(h) == req[h].pc = "replied"
Reply(h) == req[h].final_agent_response_text

\* C1: chat_history never holds more than 20 entries and is always the last
\* 20 entries (all of them, if fewer) of everything appended so far, in order.
C1_HistoryIsLast20 ==
    /\ Len(chat_history) <= 20
    /\ LET n == Len(appended)
           k == IF n < 20 THEN n ELSE 20
       IN  /\ Len(chat_history) = k
           /\ \A i \in 1..k :
                chat_history[i] = Message(appended[n - k + i].role, appended[n - k + i].content)
C1_Witness ==
    /\ ollama_client /\ Replied("h1")
    /\ Len(appended) = 22 /\ Len(chat_history) = 20
    /\ chat_history[1].content = "message 2"
    /\ chat_history[20].content # chat_history[18].content

\* C2: no failure leaves the handler; a turn that ended has replied with a
\* text and has appended exactly its user entry and then its assistant entry.
C2_AlwaysReplies ==
    \A h \in Handlers :
        /\ req[h].pc # "failed"
        /\ Replied(h) =>
             LET own == SelectSeq(appended, LAMBDA e : e.turn = req[h].turn)
             IN  own = << [turn |-> req[h].turn, role |-> "user",
                           content |-> req[h].user_message],
                          [turn |-> req[h].turn, role |-> "assistant",
                           content |-> Reply(h)] >>
C2_Witness ==
    /\ \E h \in Handlers : Replied(h) /\ req[h].response.t = "raised"
    /\ Len(appended) = 2

\* C3: a turn whose tool call returned the empty-result marker replies exactly
\* "No executive orders found for the given criteria."
C3_EmptyResultReply ==
    \A h \in Handlers :
        (Replied(h) /\ Len(req[h].calls) = 1
         /\ req[h].calls[1].outcome = [ret |-> NoDocumentsMarker])
        => Reply(h) = "No executive orders found for the given criteria."

\* C4: the reply to a turn whose backend call raised does not contain the
\* exception's text.
C4_NoExceptionText ==
    \A h \in Handlers :
        (Replied(h) /\ req[h].response.t = "raised")
        => ~Contains(Reply(h), req[h].response.v)

\* C5: an answer with structured tool calls takes the tool path on those
\* calls: its content is neither examined for an embedded call nor returned.
C5_StructuredFirst ==
    \A h \in Handlers :
        HasStructuredToolCalls(h) =>
            /\ req[h].branch = "structured"
            /\ req[h].tool_call_candidates = AnswerToolCalls(h).v
            /\ \A i \in 1..Len(req[h].calls) :
                 /\ req[h].calls[i].index \in 1..Len(AnswerToolCalls(h).v)
                 /\ DictGet(AnswerToolCalls(h).v[req[h].calls[i].index], "id", PyNone)
                      \in {PyStr("call_1"), PyStr("call_2")}
            /\ (Replied(h) /\ IsStr(AnswerContent(h))) => Reply(h) # AnswerContent(h).v
C5_Witness ==
    \E h \in Handlers :
        /\ Replied(h) /\ HasStructuredToolCalls(h)
        /\ AnswerContent(h) = PyStr(ArgsOnlyText)
        /\ Len(req[h].calls) = 1

\* Text contents that are an object with type "function", an `arguments'
\* field and no `function' field, each with its `arguments'
ArgsOnlyContents ==
    { <<ArgsOnlyText, ClimateArgs>>, <<ArgsOnlyWrappedText, ClimateArgs>>,
      <<ArgsNullText, PyNone>>, <<ArgsStringText, PyStr("{}")>> }
IsArgsOnlyAnswer(h) ==
    HasTextOnly(h) /\ \E e \in ArgsOnlyContents : e[1] = AnswerContent(h).v
ArgsOfAnswer(h) == (CHOOSE e \in ArgsOnlyContents : e[1] = AnswerContent(h).v)[2]

\* C6 as claimed: an args-only text answer makes the turn call the sole
\* offered tool with exactly the parsed arguments, and is not the reply.
C6_Original ==
    \A h \in Handlers :
        (Replied(h) /\ IsArgsOnlyAnswer(h)) =>
            /\ Len(req[h].calls) = 1
            /\ req[h].calls[1].tool_name = SearchToolName
            /\ req[h].calls[1].tool_args = ArgsOfAnswer(h)
            /\ Reply(h) # AnswerContent(h).v

\* C6 as amended: an args-only text answer is taken as a call to the sole
\* offered tool and is never the reply; the tool is called with exactly the
\* parsed arguments when they are a mapping, with their JSON decoding when
\* they are a string that decodes to a mapping, and is not called otherwise.
C6_EmbeddedCall ==
    \A h \in Handlers :
        IsArgsOnlyAnswer(h) =>
            LET args == ArgsOfAnswer(h)
                kwargs == IF IsDict(args) THEN args
                          ELSE IF args = PyStr("{}") THEN PyDict(<<>>)
                          ELSE PyNone
            IN  /\ req[h].branch = "embedded"
                /\ Len(req[h].tool_call_candidates) = 1
                /\ Replied(h) =>
                     /\ Reply(h) # AnswerContent(h).v
                     /\ Reply(h) # Strip(AnswerContent(h).v)
                     /\ IF kwargs = PyNone THEN req[h].calls = <<>>
                        ELSE /\ Len(req[h].calls) = 1
                             /\ req[h].calls[1].tool_name = SearchToolName
                             /\ req[h].calls[1].tool_args = kwargs
C6_Witness ==
    \E h \in Handlers :
        /\ Replied(h) /\ HasTextOnly(h) /\ AnswerContent(h).v = ArgsOnlyWrappedText
        /\ Len(req[h].calls) = 1 /\ req[h].calls[1].tool_args = ClimateArgs

\* C7: a text answer whose JSON object has a `function' field is never taken
\* as a tool call: no tool is called and the content is the reply.
C7_FunctionFieldBlocks ==
    \A h \in Handlers :
        (HasTextOnly(h) /\ AnswerContent(h).v \in {WithFunctionText, FunctionNullText})
        => /\ req[h].pc # "awaiting_tool"
           /\ req[h].calls = <<>>
           /\ Replied(h) => Reply(h) = AnswerContent(h).v

\* C8: on the direct-text path no tool is called, the reply is the content
\* as the model gave it, and the reply is never the empty string.
C8_DirectTextVerbatim ==
    \A h \in Handlers :
        (Replied(h) /\ req[h].branch \in {"plain", "json_text", "empty", "unexpected"})
        => /\ req[h].calls = <<>>
           /\ Truthy(AnswerContent(h)) => Reply(h) = AnswerContent(h).v
           /\ Reply(h) # ""

\* The first candidate that is a mapping with a `function' field (0: none)
IsWellFormed(tool_call) == IsDict(tool_call) /\ HasKey(tool_call, "function")
FirstWellFormed(cands) ==
    IF \E i \in 1..Len(cands) : IsWellFormed(cands[i])
    THEN CHOOSE i \in 1..Len(cands) :
            IsWellFormed(cands[i]) /\ \A j \in 1..(i - 1) : ~IsWellFormed(cands[j])
    ELSE 0

\* C9 as claimed: at most one call a turn, and only of the first proposed
\* tool call.
C9_Original ==
    \A h \in Handlers :
        /\ Len(req[h].calls) <= 1
        /\ \A i \in 1..Len(req[h].calls) : req[h].calls[i].index = 1
        /\ req[h].pc = "awaiting_tool" => req[h].index = 1

\* C9 as amended: at most one call a turn, and only of the first proposed
\* tool call that is a mapping with a `function' field; none after it.
C9_OnlyFirstWellFormed ==
    \A h \in Handlers :
        /\ Len(req[h].calls) <= 1
        /\ \A i \in 1..Len(req[h].calls) :
             req[h].calls[i].index = FirstWellFormed(req[h].tool_call_candidates)
        /\ req[h].pc = "awaiting_tool" =>
             /\ req[h].calls = <<>>
             /\ req[h].index = FirstWellFormed(req[h].tool_call_candidates)
C9_Witness ==
    \E h \in Handlers :
        /\ Replied(h) /\ Len(req[h].tool_call_candidates) = 2
        /\ Len(req[h].calls) = 1 /\ req[h].calls[1].index = 2

\* The tool call the loop settles on, its name and its raw arguments
Selected(h) == req[h].tool_call_candidates[FirstWellFormed(req[h].tool_call_candidates)]
HasNamedSelection(h) ==
    /\ FirstWellFormed(req[h].tool_call_candidates) > 0
    /\ IsDict(DictGet(Selected(h), "function", PyNone))
    /\ IsStr(DictGet(DictGet(Selected(h), "function", PyNone), "name", PyNone))
    /\ DictGet(DictGet(Selected(h), "function", PyNone), "name", PyNone).v # ""
SelectedName(h) == DictGet(DictGet(Selected(h), "function", PyNone), "name", PyNone).v
SelectedArgs(h) == DictGet(DictGet(Selected(h), "function", PyNone), "arguments", PyDict(<<>>))
UnparseableArgs == {PyStr("query_keywords=climate"), PyStr("city: Paris")}

\* C10: arguments that are an unparseable string, arguments that are neither
\* a string nor a mapping, or a tool name outside the registry: no tool is
\* called and the reply is the matching error text, without lead-in.
C10_ArgumentAndLookupErrors ==
    \A h \in Handlers :
        HasNamedSelection(h) =>
            LET X == SelectedName(h)
                expected ==
                    IF SelectedArgs(h) \in UnparseableArgs
                    THEN "Error: Invalid arguments for tool " \o X \o "."
                    ELSE IF ~IsStr(SelectedArgs(h)) /\ ~IsDict(SelectedArgs(h))
                    THEN "Error: Tool arguments for " \o X \o " had an unexpected type."
                    ELSE IF X # "search_federal_executive_orders"
                    THEN "Error: Tool '" \o X \o "' not available."
                    ELSE ""
            IN  expected # "" =>
                    /\ req[h].pc # "awaiting_tool"
                    /\ req[h].calls = <<>>
                    /\ Replied(h) => Reply(h) = expected
C10_Witness ==
    \E h \in Handlers :
        /\ Replied(h) /\ HasNamedSelection(h)
        /\ SelectedArgs(h) = PyNone
        /\ Reply(h) = "Error: Tool arguments for search_federal_executive_orders had an unexpected type."

\* Arguments the call of line 194 cannot bind: a mapping with a keyword the
\* tool does not have, or a string that decodes to something not a mapping
UnbindableArgs(args) ==
    \/ IsDict(args) /\ ~(Keys(args) \subseteq ToolParams)
    \/ IsStr(args) /\ "ok" \in DOMAIN json_loads(args.v) /\ ~IsDict(json_loads(args.v).ok)

\* C11: when the invocation of the resolved tool raises (here: arguments the
\* tool does not accept), the handler does not fail, and the turn's reply is
\* exactly "System error during {tool_name} execution." without lead-in,
\* returned and recorded as the newest assistant entry of chat_history.
C11_InvocationRaises ==
    \A h \in Handlers :
        (HasNamedSelection(h) /\ SelectedName(h) \in available_tools
         /\ UnbindableArgs(SelectedArgs(h)))
        => /\ req[h].pc # "failed"
           /\ \A i \in 1..Len(req[h].calls) : "exc" \in DOMAIN req[h].calls[i].outcome
           /\ Replied(h) =>
                /\ Reply(h) = "System error during " \o SelectedName(h) \o " execution."
                /\ chat_history # <<>>
                /\ chat_history[Len(chat_history)] = Message("assistant", Reply(h))
                /\ chat_history[Len(chat_history) - 1] = Message("user", req[h].user_message)
C11_Witness ==
    \E h \in Handlers :
        /\ Replied(h) /\ Len(req[h].calls) = 1
        /\ req[h].calls[1].outcome = [exc |-> "TypeError"]
        /\ req[h].calls[1].tool_args = PyDict(<< <<"keywords", PyStr("climate")>> >>)
        /\ Reply(h) = "System error during search_federal_executive_orders execution."
        /\ chat_history[2] = Message("assistant", Reply(h))

\* The documents a call returned, when it returned a non-empty list
ReturnedDocuments(call) ==
    IF "ret" \in DOMAIN call.outcome /\ IsList(call.outcome.ret.json)
       /\ Len(call.outcome.ret.json.v) > 0
    THEN call.outcome.ret.json.v ELSE <<>>

\* The four-line bullet block of one document
BulletBlock(doc) ==
    "- **Title:** " \o DictGet(doc, "title", PyNone).v \o "\n"
    \o "- **Document Number:** " \o DictGet(doc, "document_number", PyNone).v \o "\n"
    \o "- **Publication Date:** " \o DictGet(doc, "publication_date", PyNone).v \o "\n"
    \o "- **Link:** [Read Document](" \o DictGet(doc, "html_url", PyNone).v \o ")"

\* C12: when the tool returned a non-empty list of n documents, the reply is
\* the lead-in followed by the n bullet blocks in the list's order, joined by
\* the horizontal rule, whatever the documents' field values.
C12_DocumentListReply ==
    \A h \in Handlers :
        (Replied(h) /\ Len(req[h].calls) = 1 /\ ReturnedDocuments(req[h].calls[1]) # <<>>)
        => LET docs == ReturnedDocuments(req[h].calls[1])
           IN  Reply(h) =
                 "Okay, I found the following executive orders based on your request:\n\n"
                 \o Join([i \in 1..Len(docs) |-> BulletBlock(docs[i])], "\n---\n")

\* The search tool returned, having got past the connection (line 62)
SearchReturned == search.pc = "returned"
WindowResolved == SearchReturned /\ search.db # "connect_error"
DaysBack(token) ==
    CASE token = "today" -> <<0, 0>>
      [] token = "yesterday" -> <<1, 1>>
      [] token = "last_7_days" -> <<6, 0>>
      [] token = "last_30_days" -> <<29, 0>>
      [] token = "last_year" -> <<365, 0>>
\* A str of the form YYYY-MM-DD naming a date of the calendar
IsIsoDate(x) ==
    /\ IsStr(x) /\ Len(x.v) = 10
    /\ CharAt(x.v, 5) = "-" /\ CharAt(x.v, 8) = "-"
    /\ "ok" \in DOMAIN Strptime(x.v)

\* C13: with current date D the tokens resolve to the inclusive windows
\* today [D, D], yesterday [D-1, D-1], last_7_days [D-6, D], last_30_days
\* [D-29, D], last_year [D-365, D]; a valid YYYY-MM-DD date d resolves to
\* [d, d]; the start of the window is never after its end.
C13_DateWindows ==
    WindowResolved =>
        /\ (IsStr(search.date_range_str) /\ search.date_range_str.v \in DateRangeTokens) =>
              LET back == DaysBack(search.date_range_str.v)
              IN  /\ search.start_date_dt = PyInt(search.now - back[1])
                  /\ search.end_date_dt = PyInt(search.now - back[2])
                  /\ Strptime(search.start_date_str.v) = [ok |-> search.now - back[1]]
                  /\ Strptime(search.end_date_str.v) = [ok |-> search.now - back[2]]
        /\ IsIsoDate(search.date_range_str) =>
              /\ search.start_date_str = search.date_range_str
              /\ search.end_date_str = search.date_range_str
        /\ search.start_date_dt # PyNone =>
              /\ search.start_date_dt.v <= search.end_date_dt.v
              /\ StrLe(search.start_date_str.v, search.end_date_str.v)
C13_Witness ==
    /\ WindowResolved
    /\ search.date_range_str = PyStr("last_year")
    /\ search.now = DaysFromCivil(2025, 1, 1)
    /\ search.start_date_str = PyStr("2024-01-02")
    /\ search.end_date_str = PyStr("2025-01-01")

\* C14: a date_range_str that is neither a token nor parseable as a date,
\* a value that is not a string included, makes the tool search the window
\* [D-6, D] and never makes it return an error marker.
C14_SilentFallback ==
    (/\ SearchReturned /\ search.db = "ok"
     /\ search.query_keywords \in {PyNone, PyStr("climate")}
     /\ ~(IsStr(search.date_range_str) /\ search.date_range_str.v \in DateRangeTokens)
     /\ ~(IsStr(search.date_range_str) /\ "ok" \in DOMAIN Strptime(search.date_range_str.v)))
    => /\ search.start_date_dt = PyInt(search.now - 6)
       /\ search.end_date_dt = PyInt(search.now)
       /\ search.result \notin {UnexpectedErrorMarker, DatabaseErrorMarker}

\* The documents of a successful search (none when it reports no match)
SearchSucceeded ==
    /\ SearchReturned
    /\ search.result \notin {UnexpectedErrorMarker, DatabaseErrorMarker}
ResultDocuments ==
    IF IsList(search.result.json) THEN search.result.json.v ELSE <<>>
\* The whitespace-split tokens of the keyword string, lower-cased
KeywordTokens ==
    IF IsStr(search.query_keywords) THEN Split(Lower(search.query_keywords.v)) ELSE <<>>
TextHasToken(text, token) == IsStr(text) /\ Contains(Lower(text.v), token)
\* The rows the search is to return from: executive orders dated in the
\* window that contain one of the tokens, when there are tokens
MatchingRows ==
    { r \in search.table :
        /\ r.document_type = "Presidential Document"
        /\ LET day == Strptime(SubSeq(r.publication_date, 1, 10))
           IN  /\ "ok" \in DOMAIN day
               /\ search.start_date_dt.v <= day.ok /\ day.ok <= search.end_date_dt.v
        /\ \/ KeywordTokens = <<>>
           \/ \E i \in 1..Len(KeywordTokens) :
                \/ TextHasToken(PyStr(r.title), KeywordTokens[i])
                \/ TextHasToken(r.abstract, KeywordTokens[i]) }
DocumentDate(doc) == DictGet(doc, "publication_date", PyNone).v

\* C15: a successful search returns only executive orders dated in the
\* window whose title or abstract contains, without regard to case, one of
\* the whitespace-split tokens (any such order when the keyword string is
\* blank or absent); it returns min(10, number of matching documents) of
\* them, newest first, and leaves out no document newer than a returned one.
C15_SearchResult ==
    SearchSucceeded =>
        LET docs == ResultDocuments
            numbers == {r.document_number : r \in MatchingRows}
            returned == {DictGet(docs[i], "document_number", PyNone).v : i \in 1..Len(docs)}
        IN  /\ returned \subseteq numbers
            /\ Len(docs) = Min(10, Cardinality(MatchingRows))
            /\ Cardinality(returned) = Len(docs)
            /\ \A i, j \in 1..Len(docs) :
                 i < j => ~StrLt(DocumentDate(docs[i]), DocumentDate(docs[j]))
            /\ \A r \in MatchingRows : r.document_number \notin returned =>
                 \A i \in 1..Len(docs) :
                     ~StrLt(DocumentDate(docs[i]), SubSeq(r.publication_date, 1, 10))

\* C16: on the tool path the reply carries the lead-in "Okay, I found the
\* following executive orders based on your request:" only when a tool was
\* invoked in the turn and returned a non-empty document list.
C16_LeadInOnlyForDocuments ==
    \A h \in Handlers :
        (/\ Replied(h) /\ req[h].branch \in {"structured", "embedded"}
         /\ Contains(Reply(h),
                     "Okay, I found the following executive orders based on your request:"))
        => /\ Len(req[h].calls) = 1
           /\ ReturnedDocuments(req[h].calls[1]) # <<>>

\* C17: under every interleaving of concurrent turns chat_history is a
\* sequence of whole (user, assistant) pairs: even length, user then
\* assistant, the two entries of a pair appended by the same turn one right
\* after the other, the assistant entry being the reply returned for that
\* turn, no system message stored, and nothing missing but the oldest
\* entries cut by truncation.
C17_PairsIntact ==
    LET n == Len(appended)
        k == Len(chat_history)
    IN  /\ k % 2 = 0 /\ n % 2 = 0
        /\ k = Min(20, n)
        /\ \A i \in 1..k :
             /\ chat_history[i] = Message(appended[n - k + i].role, appended[n - k + i].content)
             /\ chat_history[i].role = (IF i % 2 = 1 THEN "user" ELSE "assistant")
             /\ chat_history[i].content # system_instruction_text_tool_invocation
        /\ \A i \in 1..n :
             i % 2 = 1 =>
                /\ appended[i].role = "user" /\ appended[i + 1].role = "assistant"
                /\ appended[i].turn = appended[i + 1].turn
                /\ appended[i].content = "message " \o NatStr(appended[i].turn)
                /\ \A j \in 1..n : appended[j].turn = appended[i].turn => j \in {i, i + 1}
        /\ \A h \in Handlers :
             Replied(h) =>
                \E i \in 1..n :
                    /\ appended[i] = [turn |-> req[h].turn, role |-> "assistant",
                                      content |-> Reply(h)]
                    /\ appended[i - 1].content = req[h].user_message
        /\ \A h \in Handlers :
             req[h].pc \in {"awaiting_model", "awaiting_tool"} =>
                \A i \in 1..n : appended[i].turn # req[h].turn
C17_Witness ==
    /\ Len(appended) = 24 /\ Len(chat_history) = 20
    /\ appended[19].turn = 11 /\ appended[21].turn = 12 /\ appended[23].turn = 10
    /\ Replied("h1") /\ req["h1"].turn = 10 /\ Len(req["h1"].calls) = 1
    /\ Replied("h2") /\ req["h2"].turn = 12
    /\ chat_history[1] = Message("user", "message 3")
    /\ chat_history[20] = Message("assistant", Reply("h1"))

=============================================================================
